---- MODULE Spec2Model ----
(***************************************************************************)
(* Model of the roadside-assistance dispatch store: src/server.js (the     *)
(* Express handlers over database.json) and                                *)
(* src/cars_project-main/clean-database.js.                                *)
(*                                                                         *)
(* database.json is the variable db.  Every handler of server.js is        *)
(* synchronous (readFileSync / writeFileSync), so one handler is one       *)
(* action: read the whole file, change the copy, write the whole file,     *)
(* answer.  Timestamps are the clock's millisecond count; toISOString is   *)
(* an order-preserving injection of it, so the count stands for the text.  *)
(***************************************************************************)
EXTENDS Integers, Sequences, FiniteSets, TLC

VARIABLES
    db,      \* content of database.json, or NoFile before the first start
    up,      \* TRUE while the server process runs
    now,     \* the wall clock in milliseconds (Date.now())
    last,    \* the last request handled and the response it got
    nops,    \* number of requests handled so far
    hs,      \* per connection: how far the handler of its request has run
    stack    \* the connection whose handler is on the call stack, or 0

vars == <<db, up, now, last, nops, hs, stack>>

(***************************************************************************)
(* Bounds of the model.                                                    *)
(***************************************************************************)
MaxOps == 3
MaxTime == 1
\* Requests handled when the file system can fail.
MaxFaultOps == 2
\* Connections that can have a request waiting at the same time.
MaxClients == 2
\* The longest requests array given to the cleaning script, and its runs.
MaxRequests == 3
MaxCleanRuns == 2
\* The most requests the server has handled when the script runs on its file.
MaxStoreOps == 4

(***************************************************************************)
(* JavaScript values that a field can hold besides a plain number or text. *)
(***************************************************************************)
Null == [type |-> "null"]
NaN == [type |-> "NaN"]
Num(n) == [type |-> "number", num |-> n]
Str(s) == [type |-> "string", str |-> s]

\* a === b on values: NaN is equal to nothing, itself included.
StrictEq(a, b) == a # NaN /\ b # NaN /\ a = b

\* What JSON.stringify followed by JSON.parse makes of a value: NaN -> null.
JsonValue(v) == IF v = NaN THEN Null ELSE v

DigitChars == {"0", "1", "2", "3", "4", "5", "6", "7", "8", "9"}

DigitVal(c) ==
    CASE c = "0" -> 0 [] c = "1" -> 1 [] c = "2" -> 2 [] c = "3" -> 3
      [] c = "4" -> 4 [] c = "5" -> 5 [] c = "6" -> 6 [] c = "7" -> 7
      [] c = "8" -> 8 [] c = "9" -> 9

RECURSIVE SkipSpaces(_)
SkipSpaces(s) ==
    IF s # <<>> /\ s[1] = " " THEN SkipSpaces(Tail(s)) ELSE s

RECURSIVE ParseDigits(_, _)
ParseDigits(s, acc) ==
    IF s = <<>> \/ s[1] \notin DigitChars
    THEN acc
    ELSE ParseDigits(Tail(s), acc * 10 + DigitVal(s[1]))

\* parseInt(s) of a text given as its sequence of characters: leading blanks
\* skipped, an optional sign, the longest prefix of digits; NaN without one.
ParseInt(s) ==
    LET t == SkipSpaces(s)
        signed == t # <<>> /\ t[1] \in {"+", "-"}
        u == IF signed THEN Tail(t) ELSE t
    IN  IF u = <<>> \/ u[1] \notin DigitChars
        THEN NaN
        ELSE Num((IF signed /\ t[1] = "-" THEN -1 ELSE 1) * ParseDigits(u, 0))

(***************************************************************************)
(* Sequence helpers (Array.prototype.findIndex / filter / splice / map).   *)
(***************************************************************************)

\* findIndex: the first index whose element satisfies P, 0 for JavaScript's -1.
FindIndex(s, P(_)) ==
    IF \E i \in 1..Len(s) : P(s[i])
    THEN CHOOSE i \in 1..Len(s) : P(s[i]) /\ \A j \in 1..(i - 1) : ~P(s[j])
    ELSE 0

\* filter
Filter(s, P(_)) == SelectSeq(s, P)

\* splice(i, 1)
RemoveAt(s, i) == SubSeq(s, 1, i - 1) \o SubSeq(s, i + 1, Len(s))

MaxOf(S) == CHOOSE m \in S : \A x \in S : x <= m

(***************************************************************************)
(* The database file.                                                      *)
(***************************************************************************)
NoFile == [type |-> "ENOENT"]

EmptyDb ==
    [requests |-> <<>>, contacts |-> <<>>, users |-> <<>>, admins |-> <<>>,
     assignments |-> <<>>]

\* initialData of initializeDatabase, its timestamps taken at time t.
InitialData(t) ==
    [requests |-> <<>>,
     contacts |-> <<
        [id |-> 1, name |-> "Ahmed Mechanic", phone |-> "0612345678",
         email |-> "ahmed@roadside.com", role |-> "mechanic", createdAt |-> t],
        [id |-> 2, name |-> "Fatima Towing", phone |-> "0623456789",
         email |-> "fatima@roadside.com", role |-> "towing", createdAt |-> t],
        [id |-> 3, name |-> "Karim Emergency", phone |-> "0634567890",
         email |-> "karim@roadside.com", role |-> "emergency", createdAt |-> t] >>,
     users |-> <<
        [id |-> 1, username |-> "admin1", email |-> "admin1@roadside.com",
         role |-> "admin", status |-> "active", createdAt |-> t],
        [id |-> 2, username |-> "superadmin", email |-> "super@roadside.com",
         role |-> "super_admin", status |-> "active", createdAt |-> t],
        [id |-> 3, username |-> "operator1", email |-> "op1@roadside.com",
         role |-> "operator", status |-> "active", createdAt |-> t] >>,
     admins |-> <<
        [id |-> 1, name |-> "John Admin", username |-> "admin1",
         email |-> "admin1@roadside.com", phone |-> "0612345678",
         level |-> "admin", status |-> "active", createdAt |-> t],
        [id |-> 2, name |-> "Sarah Super", username |-> "superadmin",
         email |-> "super@roadside.com", phone |-> "0623456789",
         level |-> "super_admin", status |-> "active", createdAt |-> t] >>,
     assignments |-> <<>>]

\* initializeDatabase: the file is written only when it does not exist.
initializeDatabase(f, t) == IF f = NoFile THEN InitialData(t) ELSE f

\* readDatabase without its catch taken: the content of the file whatever
\* became of the read.
readDatabaseNoFallback(f, ok) == IF f # NoFile THEN f ELSE EmptyDb

\* readDatabase; ok is FALSE when readFileSync or JSON.parse throws.
readDatabase(f, ok) == IF ok /\ f # NoFile THEN f ELSE EmptyDb

\* JSON.stringify(data): a NaN in an assignment is written as null.
Serialize(data) ==
    [data EXCEPT !.assignments =
        [i \in 1..Len(@) |->
            [@[i] EXCEPT !.requestId = JsonValue(@),
                         !.contactId = JsonValue(@),
                         !.userId = JsonValue(@)]]]

\* writeDatabase: the new content of the file; ok is FALSE when writeFileSync
\* throws, and then the file keeps its content (the function returns false).
writeDatabase(f, data, ok) == IF ok THEN Serialize(data) ELSE f

\* getNextId counting the records instead of taking the greatest id.
getNextIdByLength(f, collection, ok) == Len(readDatabase(f, ok)[collection]) + 1

\* getNextId(collection): a read of its own, then max(id) + 1.
getNextId(f, collection, ok) ==
    LET d == readDatabase(f, ok)
    IN  IF Len(d[collection]) = 0 THEN 1
        ELSE MaxOf({d[collection][i].id : i \in 1..Len(d[collection])}) + 1

(***************************************************************************)
(* Outcomes of the file operations of one handler: r1 the handler's        *)
(* readDatabase, r2 the readDatabase inside getNextId, w the write.        *)
(***************************************************************************)
Reliable == [r1 |-> TRUE, r2 |-> TRUE, w |-> TRUE]
IOOutcomes == [r1 : BOOLEAN, r2 : BOOLEAN, w : BOOLEAN]

\* What a handler leaves behind.  op, req: the request as the handler parsed
\* it; code, body: the response; path: the branch the handler took; wrote:
\* writeDatabase was called and returned true; pre: the file before the request;
\* at: the handler's last reading of the clock; read: the handler's own
\* readDatabase() got the file's content and not the fallback; idRead: so did
\* the readDatabase() inside getNextId, if the handler called it.
NoRequest ==
    [op |-> "none", req |-> Null, code |-> 0, body |-> Null, path |-> "none",
     wrote |-> FALSE, pre |-> Null, at |-> 0, read |-> TRUE, idRead |-> TRUE]

\* What the body of a handler computes from the copy d it read: the response,
\* the copy as changed, and whether it goes on to writeDatabase(data).
Outcome(code, body, path, data, write) ==
    [code |-> code, body |-> body, path |-> path, data |-> data, write |-> write]

\* A request is handled: the process runs and the budget of requests allows it.
Handles == up /\ nops < MaxOps /\ nops' = nops + 1 /\ UNCHANGED up

\* The end of every handler: the write if the body reached it, then res.json.
\* The value writeDatabase returns is not looked at.
Finish(op, req, out, io, t) ==
    /\ Handles
    /\ now' = t
    /\ db' = IF out.write THEN writeDatabase(db, out.data, io.w) ELSE db
    /\ last' = [op |-> op, req |-> req, code |-> out.code, body |-> out.body,
                path |-> out.path, wrote |-> out.write /\ io.w, pre |-> db,
                at |-> t, read |-> io.r1,
                idRead |-> (out.path = "created" => io.r2)]
    /\ UNCHANGED <<hs, stack>>

(***************************************************************************)
(* Inputs.                                                                 *)
(***************************************************************************)
UserInfos == {"Jane, Toyota, Rabat"}
ImageRefs == {Null, Str("/uploads/photo-1.png")}
RequestStatuses == {"Completed"}

\* Ids as the caller writes them, character by character.
RequestIdArgs == {<<"1">>, <<"2", "x">>, <<"a", "b", "c">>}
ContactIdArgs == {<<"1">>, <<"4">>}
UserIdArgs == {<<"1">>}
AdminIdArgs == {<<"2">>}

\* The rest of the body of POST /api/assignments.
AssignmentInputs ==
    {[contactId |-> <<"1">>, userId |-> <<"1">>, status |-> "assigned"],
     [contactId |-> <<"4">>, userId |-> <<"1">>, status |-> "completed"]}

ContactInputs ==
    {[name |-> "Ahmed", phone |-> "0612345678", email |-> "ahmed@x.com",
      role |-> "mechanic"]}
UserInputs ==
    {[username |-> "operator2", email |-> "op2@roadside.com",
      role |-> "operator", status |-> "inactive"]}
AdminInputs ==
    {[name |-> "Nadia Admin", username |-> "nadia", email |-> "nadia@roadside.com",
      phone |-> "0645678901", level |-> "admin", status |-> "active"]}

Clients == 1..MaxClients

\* A connection with no request.
Idle ==
    [pc |-> "idle", req |-> Null, d |-> Null, id |-> 0, t |-> 0,
     overtaken |-> FALSE]

Init ==
    /\ db = NoFile
    /\ up = FALSE
    /\ now = 0
    /\ last = NoRequest
    /\ nops = 0
    /\ hs = [c \in Clients |-> Idle]
    /\ stack = 0

\* node server.js for the first time: initializeDatabase() at module load,
\* then app.listen.
Startup ==
    /\ ~up
    /\ up' = TRUE
    /\ db' = initializeDatabase(db, now)
    /\ UNCHANGED <<now, last, nops, hs, stack>>

\* SIGINT (process.exit(0)) and node server.js again: the process keeps nothing
\* between two requests, so what a restart leaves is initializeDatabase's work.
Restart ==
    /\ Handles
    /\ db' = initializeDatabase(db, now)
    /\ last' = [NoRequest EXCEPT !.op = "restart", !.pre = db, !.at = now]
    /\ UNCHANGED <<now, hs, stack>>

\* Time passes.
Tick ==
    /\ now < MaxTime
    /\ now' = now + 1
    /\ UNCHANGED <<db, up, last, nops, hs, stack>>

(***************************************************************************)
(* The bodies of the handlers, as functions of the copy d of the database   *)
(* that readDatabase returned, the parsed parameters, the id getNextId gave *)
(* and the readings of the clock.                                           *)
(***************************************************************************)

\* POST /api/requests without db.requests.push(newRequest).
createRequestWithoutPush(d, id, userInfo, imageUrl, t1, t2) ==
    LET newRequest ==
            [id |-> id, userInfo |-> userInfo, imageUrl |-> imageUrl,
             status |-> "Submitted", createdAt |-> t1, updatedAt |-> t2]
    IN  Outcome(200, newRequest, "created", d, TRUE)

\* POST /api/requests
createRequest(d, id, userInfo, imageUrl, t1, t2) ==
    LET newRequest ==
            [id |-> id, userInfo |-> userInfo, imageUrl |-> imageUrl,
             status |-> "Submitted", createdAt |-> t1, updatedAt |-> t2]
    IN  Outcome(200, newRequest, "created",
                [d EXCEPT !.requests = Append(@, newRequest)], TRUE)

\* PUT /api/requests/:id/status
updateRequestStatus(d, pid, status, t) ==
    LET requestIndex == FindIndex(d.requests, LAMBDA r : StrictEq(Num(r.id), pid))
    IN  IF requestIndex = 0
        THEN Outcome(404, Null, "notFound", d, FALSE)
        ELSE Outcome(200, Null, "updated",
                     [d EXCEPT !.requests[requestIndex].status = status,
                               !.requests[requestIndex].updatedAt = t], TRUE)

\* The deletion with the cascade's filter the wrong way round: it keeps the
\* assignments of the deleted request and drops the others.
deleteRequestKeepsMatching(d, pid) ==
    LET d1 == [d EXCEPT !.assignments =
                  Filter(@, LAMBDA a : StrictEq(a.requestId, pid))]
        requestIndex == FindIndex(d1.requests, LAMBDA r : StrictEq(Num(r.id), pid))
    IN  IF requestIndex = 0
        THEN Outcome(404, Null, "notFound", d1, FALSE)
        ELSE Outcome(200, Null, "deleted",
                     [d1 EXCEPT !.requests = RemoveAt(@, requestIndex)], TRUE)

\* DELETE /api/requests/:id
deleteRequest(d, pid) ==
    LET d1 == [d EXCEPT !.assignments =
                  Filter(@, LAMBDA a : ~StrictEq(a.requestId, pid))]
        requestIndex == FindIndex(d1.requests, LAMBDA r : StrictEq(Num(r.id), pid))
    IN  IF requestIndex = 0
        THEN Outcome(404, Null, "notFound", d1, FALSE)
        ELSE Outcome(200, Null, "deleted",
                     [d1 EXCEPT !.requests = RemoveAt(@, requestIndex)], TRUE)

\* POST /api/contacts
createContact(d, id, in, t) ==
    LET newContact ==
            [id |-> id, name |-> in.name, phone |-> in.phone,
             email |-> in.email, role |-> in.role, createdAt |-> t]
    IN  Outcome(200, newContact, "created",
                [d EXCEPT !.contacts = Append(@, newContact)], TRUE)

\* PUT /api/contacts/:id
updateContact(d, pid, in) ==
    LET contactIndex == FindIndex(d.contacts, LAMBDA c : StrictEq(Num(c.id), pid))
    IN  IF contactIndex = 0
        THEN Outcome(404, Null, "notFound", d, FALSE)
        ELSE Outcome(200, Null, "updated",
                     [d EXCEPT !.contacts[contactIndex] =
                         [@ EXCEPT !.name = in.name, !.phone = in.phone,
                                   !.email = in.email, !.role = in.role]], TRUE)

\* deleteContact writing the filtered assignments before it looks for the
\* contact.
deleteContactWritesFirst(d, pid) ==
    LET d1 == [d EXCEPT !.assignments =
                  Filter(@, LAMBDA a : ~StrictEq(a.contactId, pid))]
        contactIndex == FindIndex(d1.contacts, LAMBDA c : StrictEq(Num(c.id), pid))
    IN  IF contactIndex = 0
        THEN Outcome(404, Null, "notFound", d1, TRUE)
        ELSE Outcome(200, Null, "deleted",
                     [d1 EXCEPT !.contacts = RemoveAt(@, contactIndex)], TRUE)

\* The deletion without its cascade: the assignments are left as they are.
deleteContactKeepsAssignments(d, pid) ==
    LET contactIndex == FindIndex(d.contacts, LAMBDA c : StrictEq(Num(c.id), pid))
    IN  IF contactIndex = 0
        THEN Outcome(404, Null, "notFound", d, FALSE)
        ELSE Outcome(200, Null, "deleted",
                     [d EXCEPT !.contacts = RemoveAt(@, contactIndex)], TRUE)

\* DELETE /api/contacts/:id
deleteContact(d, pid) ==
    LET d1 == [d EXCEPT !.assignments =
                  Filter(@, LAMBDA a : ~StrictEq(a.contactId, pid))]
        contactIndex == FindIndex(d1.contacts, LAMBDA c : StrictEq(Num(c.id), pid))
    IN  IF contactIndex = 0
        THEN Outcome(404, Null, "notFound", d1, FALSE)
        ELSE Outcome(200, Null, "deleted",
                     [d1 EXCEPT !.contacts = RemoveAt(@, contactIndex)], TRUE)

\* POST /api/users
createUser(d, id, in, t) ==
    LET newUser ==
            [id |-> id, username |-> in.username, email |-> in.email,
             role |-> in.role, status |-> in.status, createdAt |-> t]
    IN  Outcome(200, newUser, "created",
                [d EXCEPT !.users = Append(@, newUser)], TRUE)

\* PUT /api/users/:id
updateUser(d, pid, in) ==
    LET userIndex == FindIndex(d.users, LAMBDA u : StrictEq(Num(u.id), pid))
    IN  IF userIndex = 0
        THEN Outcome(404, Null, "notFound", d, FALSE)
        ELSE Outcome(200, Null, "updated",
                     [d EXCEPT !.users[userIndex] =
                         [@ EXCEPT !.username = in.username, !.email = in.email,
                                   !.role = in.role, !.status = in.status]], TRUE)

\* deleteUser with the filter of deleteContact left as it was copied.
deleteUserFiltersContact(d, pid) ==
    LET d1 == [d EXCEPT !.assignments =
                  Filter(@, LAMBDA a : ~StrictEq(a.contactId, pid))]
        userIndex == FindIndex(d1.users, LAMBDA u : StrictEq(Num(u.id), pid))
    IN  IF userIndex = 0
        THEN Outcome(404, Null, "notFound", d1, FALSE)
        ELSE Outcome(200, Null, "deleted",
                     [d1 EXCEPT !.users = RemoveAt(@, userIndex)], TRUE)

\* DELETE /api/users/:id
deleteUser(d, pid) ==
    LET d1 == [d EXCEPT !.assignments =
                  Filter(@, LAMBDA a : ~StrictEq(a.userId, pid))]
        userIndex == FindIndex(d1.users, LAMBDA u : StrictEq(Num(u.id), pid))
    IN  IF userIndex = 0
        THEN Outcome(404, Null, "notFound", d1, FALSE)
        ELSE Outcome(200, Null, "deleted",
                     [d1 EXCEPT !.users = RemoveAt(@, userIndex)], TRUE)

\* POST /api/admins
createAdmin(d, id, in, t) ==
    LET newAdmin ==
            [id |-> id, name |-> in.name, username |-> in.username,
             email |-> in.email, phone |-> in.phone, level |-> in.level,
             status |-> in.status, createdAt |-> t]
    IN  Outcome(200, newAdmin, "created",
                [d EXCEPT !.admins = Append(@, newAdmin)], TRUE)

\* PUT /api/admins/:id
updateAdmin(d, pid, in) ==
    LET adminIndex == FindIndex(d.admins, LAMBDA a : StrictEq(Num(a.id), pid))
    IN  IF adminIndex = 0
        THEN Outcome(404, Null, "notFound", d, FALSE)
        ELSE Outcome(200, Null, "updated",
                     [d EXCEPT !.admins[adminIndex] =
                         [@ EXCEPT !.name = in.name, !.username = in.username,
                                   !.email = in.email, !.phone = in.phone,
                                   !.level = in.level, !.status = in.status]],
                     TRUE)

\* DELETE /api/admins/:id
deleteAdmin(d, pid) ==
    LET adminIndex == FindIndex(d.admins, LAMBDA a : StrictEq(Num(a.id), pid))
    IN  IF adminIndex = 0
        THEN Outcome(404, Null, "notFound", d, FALSE)
        ELSE Outcome(200, Null, "deleted",
                     [d EXCEPT !.admins = RemoveAt(@, adminIndex)], TRUE)

\* The update with the spread written last: the stored fields win.
updateExistingSpreadLast(a, cid, uid, status) == a

\* POST /api/assignments, "Update existing assignment": the stored record with
\* contactId, userId and status replaced.
updateExisting(a, cid, uid, status) ==
    [a EXCEPT !.contactId = cid, !.userId = uid, !.status = status]

\* The request left alone when the assignment is said to be completed.
markInProgressUnlessCompleted(d, rid, status, t) ==
    LET requestIndex == FindIndex(d.requests, LAMBDA r : StrictEq(Num(r.id), rid))
    IN  IF requestIndex # 0 /\ status # "completed"
        THEN [d EXCEPT !.requests[requestIndex].status = "In Progress",
                       !.requests[requestIndex].updatedAt = t]
        ELSE d

\* POST /api/assignments, "Update request status to 'In Progress'".
markInProgress(d, rid, status, t) ==
    LET requestIndex == FindIndex(d.requests, LAMBDA r : StrictEq(Num(r.id), rid))
    IN  IF requestIndex # 0
        THEN [d EXCEPT !.requests[requestIndex].status = "In Progress",
                       !.requests[requestIndex].updatedAt = t]
        ELSE d

\* POST /api/assignments.  id is what getNextId('assignments') gives, asked for
\* on the create branch only.
upsertAssignment(d, id, rid, cid, uid, status, t1, t2) ==
    LET existingAssignmentIndex ==
            FindIndex(d.assignments, LAMBDA a : StrictEq(a.requestId, rid))
        newAssignment ==
            [id |-> id, requestId |-> rid, contactId |-> cid, userId |-> uid,
             status |-> status, createdAt |-> t1]
        d1 == IF existingAssignmentIndex # 0
              THEN [d EXCEPT !.assignments[existingAssignmentIndex] =
                       updateExisting(@, cid, uid, status)]
              ELSE [d EXCEPT !.assignments = Append(@, newAssignment)]
    IN  Outcome(200, Null,
                IF existingAssignmentIndex # 0 THEN "updated" ELSE "created",
                markInProgress(d1, rid, status, t2), TRUE)

(***************************************************************************)
(* The list operations.                                                     *)
(***************************************************************************)
\* find: the first element that satisfies P, Null standing for undefined.
Find(s, P(_)) == IF FindIndex(s, P) = 0 THEN Null ELSE s[FindIndex(s, P)]

\* x put into s, which is newest first, before the first element not newer.
RECURSIVE InsertNewestFirst(_, _)
InsertNewestFirst(x, s) ==
    IF s = <<>> THEN <<x>>
    ELSE IF s[1].createdAt <= x.createdAt THEN <<x>> \o s
         ELSE <<s[1]>> \o InsertNewestFirst(x, Tail(s))

\* sort((a, b) => new Date(b.createdAt) - new Date(a.createdAt)), a stable sort.
RECURSIVE SortNewestFirst(_)
SortNewestFirst(s) ==
    IF s = <<>> THEN <<>>
    ELSE InsertNewestFirst(s[1], SortNewestFirst(Tail(s)))

\* GET /api/requests
listRequests(d) ==
    LET view(req) ==
            LET assignment ==
                    Find(d.assignments, LAMBDA a : StrictEq(a.requestId, Num(req.id)))
                contact ==
                    IF assignment # Null
                    THEN Find(d.contacts,
                              LAMBDA c : StrictEq(Num(c.id), assignment.contactId))
                    ELSE Null
                user ==
                    IF assignment # Null
                    THEN Find(d.users,
                              LAMBDA u : StrictEq(Num(u.id), assignment.userId))
                    ELSE Null
            IN  [id |-> req.id, userInfo |-> req.userInfo,
                 imageUrl |-> req.imageUrl, status |-> req.status,
                 createdAt |-> req.createdAt, updatedAt |-> req.updatedAt,
                 contactName |-> IF contact # Null THEN Str(contact.name) ELSE Null,
                 contactRole |-> IF contact # Null THEN Str(contact.role) ELSE Null,
                 userName |-> IF user # Null THEN Str(user.username) ELSE Null]
    IN  SortNewestFirst([i \in 1..Len(d.requests) |-> view(d.requests[i])])

\* GET /api/assignments with the contact and the user looked up only for an
\* assignment whose request was found.
listAssignmentsUnderRequest(d) ==
    LET view(assignment) ==
            LET request ==
                    Find(d.requests,
                         LAMBDA r : StrictEq(Num(r.id), assignment.requestId))
                contact ==
                    IF request # Null
                    THEN Find(d.contacts,
                              LAMBDA c : StrictEq(Num(c.id), assignment.contactId))
                    ELSE Null
                user ==
                    IF request # Null
                    THEN Find(d.users,
                              LAMBDA u : StrictEq(Num(u.id), assignment.userId))
                    ELSE Null
            IN  [id |-> assignment.id, requestId |-> assignment.requestId,
                 contactId |-> assignment.contactId, userId |-> assignment.userId,
                 status |-> assignment.status, createdAt |-> assignment.createdAt,
                 userInfo |-> IF request # Null THEN Str(request.userInfo) ELSE Null,
                 imageUrl |-> IF request # Null THEN request.imageUrl ELSE Null,
                 requestStatus |-> IF request # Null THEN Str(request.status) ELSE Null,
                 contactName |-> IF contact # Null THEN Str(contact.name) ELSE Null,
                 contactRole |-> IF contact # Null THEN Str(contact.role) ELSE Null,
                 userName |-> IF user # Null THEN Str(user.username) ELSE Null]
    IN  SortNewestFirst([i \in 1..Len(d.assignments) |-> view(d.assignments[i])])

\* GET /api/assignments
listAssignments(d) ==
    LET view(assignment) ==
            LET request ==
                    Find(d.requests,
                         LAMBDA r : StrictEq(Num(r.id), assignment.requestId))
                contact ==
                    Find(d.contacts,
                         LAMBDA c : StrictEq(Num(c.id), assignment.contactId))
                user ==
                    Find(d.users,
                         LAMBDA u : StrictEq(Num(u.id), assignment.userId))
            IN  [id |-> assignment.id, requestId |-> assignment.requestId,
                 contactId |-> assignment.contactId, userId |-> assignment.userId,
                 status |-> assignment.status, createdAt |-> assignment.createdAt,
                 userInfo |-> IF request # Null THEN Str(request.userInfo) ELSE Null,
                 imageUrl |-> IF request # Null THEN request.imageUrl ELSE Null,
                 requestStatus |-> IF request # Null THEN Str(request.status) ELSE Null,
                 contactName |-> IF contact # Null THEN Str(contact.name) ELSE Null,
                 contactRole |-> IF contact # Null THEN Str(contact.role) ELSE Null,
                 userName |-> IF user # Null THEN Str(user.username) ELSE Null]
    IN  SortNewestFirst([i \in 1..Len(d.assignments) |-> view(d.assignments[i])])

(***************************************************************************)
(* The handlers.  io gives the outcomes of the handler's file operations;   *)
(* dt is the time between two readings of the clock in one handler.         *)
(***************************************************************************)
CreateRequest(userInfo, imageUrl, dt, io) ==
    /\ now + dt <= MaxTime
    /\ Finish("createRequest", [userInfo |-> userInfo, imageUrl |-> imageUrl],
              createRequest(readDatabase(db, io.r1),
                            getNextId(db, "requests", io.r2),
                            userInfo, imageUrl, now, now + dt),
              io, now + dt)

UpdateRequestStatus(id, status, io) ==
    Finish("updateRequestStatus", [id |-> ParseInt(id), status |-> status],
           updateRequestStatus(readDatabase(db, io.r1), ParseInt(id), status, now),
           io, now)

DeleteRequest(id, io) ==
    Finish("deleteRequest", [id |-> ParseInt(id)],
           deleteRequest(readDatabase(db, io.r1), ParseInt(id)), io, now)

CreateContact(in, io) ==
    Finish("createContact", in,
           createContact(readDatabase(db, io.r1),
                         getNextId(db, "contacts", io.r2), in, now),
           io, now)

UpdateContact(id, in, io) ==
    Finish("updateContact", [id |-> ParseInt(id), fields |-> in],
           updateContact(readDatabase(db, io.r1), ParseInt(id), in), io, now)

DeleteContact(id, io) ==
    Finish("deleteContact", [id |-> ParseInt(id)],
           deleteContact(readDatabase(db, io.r1), ParseInt(id)), io, now)

CreateUser(in, io) ==
    Finish("createUser", in,
           createUser(readDatabase(db, io.r1),
                      getNextId(db, "users", io.r2), in, now),
           io, now)

UpdateUser(id, in, io) ==
    Finish("updateUser", [id |-> ParseInt(id), fields |-> in],
           updateUser(readDatabase(db, io.r1), ParseInt(id), in), io, now)

DeleteUser(id, io) ==
    Finish("deleteUser", [id |-> ParseInt(id)],
           deleteUser(readDatabase(db, io.r1), ParseInt(id)), io, now)

CreateAdmin(in, io) ==
    Finish("createAdmin", in,
           createAdmin(readDatabase(db, io.r1),
                       getNextId(db, "admins", io.r2), in, now),
           io, now)

UpdateAdmin(id, in, io) ==
    Finish("updateAdmin", [id |-> ParseInt(id), fields |-> in],
           updateAdmin(readDatabase(db, io.r1), ParseInt(id), in), io, now)

DeleteAdmin(id, io) ==
    Finish("deleteAdmin", [id |-> ParseInt(id)],
           deleteAdmin(readDatabase(db, io.r1), ParseInt(id)), io, now)

\* GET /api/requests
ListRequests(io) ==
    LET d == readDatabase(db, io.r1)
    IN  Finish("listRequests", Null,
               Outcome(200, listRequests(d), "listed", d, FALSE), io, now)

\* GET /api/assignments
ListAssignments(io) ==
    LET d == readDatabase(db, io.r1)
    IN  Finish("listAssignments", Null,
               Outcome(200, listAssignments(d), "listed", d, FALSE), io, now)

\* The two readings of the clock lie in one handler only when the assignment
\* is new and the request exists; otherwise there is one reading.
UpsertAssignment(requestId, in, dt, io) ==
    LET rid == ParseInt(requestId)
        cid == ParseInt(in.contactId)
        uid == ParseInt(in.userId)
        d == readDatabase(db, io.r1)
        out == upsertAssignment(d, getNextId(db, "assignments", io.r2),
                                rid, cid, uid, in.status, now, now + dt)
    IN  /\ now + dt <= MaxTime
        /\ dt > 0 => out.path = "created" /\ out.data.requests # d.requests
        /\ Finish("upsertAssignment",
                  [requestId |-> rid, contactId |-> cid, userId |-> uid,
                   status |-> in.status],
                  out, io, now + dt)

\* The requests the model sends with storage outcomes io: those whose handler
\* can call getNextId,
Creates(io) ==
    \/ \E ui \in UserInfos, img \in ImageRefs, dt \in 0..1 :
          CreateRequest(ui, img, dt, io)
    \/ \E in \in ContactInputs : CreateContact(in, io)
    \/ \E in \in UserInputs : CreateUser(in, io)
    \/ \E in \in AdminInputs : CreateAdmin(in, io)
    \/ \E r \in RequestIdArgs, in \in AssignmentInputs, dt \in 0..1 :
          UpsertAssignment(r, in, dt, io)

\* those whose handler reads once and writes unless it answers 404,
UpdatesAndDeletes(io) ==
    \/ \E id \in RequestIdArgs, st \in RequestStatuses :
          UpdateRequestStatus(id, st, io)
    \/ \E id \in RequestIdArgs : DeleteRequest(id, io)
    \/ \E id \in ContactIdArgs, in \in ContactInputs : UpdateContact(id, in, io)
    \/ \E id \in ContactIdArgs : DeleteContact(id, io)
    \/ \E id \in UserIdArgs, in \in UserInputs : UpdateUser(id, in, io)
    \/ \E id \in UserIdArgs : DeleteUser(id, io)
    \/ \E id \in AdminIdArgs, in \in AdminInputs : UpdateAdmin(id, in, io)
    \/ \E id \in AdminIdArgs : DeleteAdmin(id, io)

\* and those whose handler reads once and never writes.
Lists(io) ==
    \/ ListRequests(io)
    \/ ListAssignments(io)

Requests(io) == Creates(io) \/ UpdatesAndDeletes(io) \/ Lists(io)

Next ==
    \/ Startup
    \/ Restart
    \/ Tick
    \/ Requests(Reliable)

Spec == Init /\ [][Next]_vars

\* The same server over a file system whose reads and writes can fail, each
\* handler with an outcome for each file operation it has.
NextFault ==
    \/ Startup
    \/ nops < MaxFaultOps /\ Restart
    \/ Tick
    \/ nops < MaxFaultOps /\ \E io \in IOOutcomes : Creates(io)
    \/ nops < MaxFaultOps
          /\ \E io \in {o \in IOOutcomes : o.r2} : UpdatesAndDeletes(io)
    \/ nops < MaxFaultOps
          /\ \E io \in {o \in IOOutcomes : o.r2 /\ o.w} : Lists(io)

SpecFault == Init /\ [][NextFault]_vars

(***************************************************************************)
(* The same handlers one file operation at a time, under Node's event loop: *)
(* requests of several connections wait, the loop calls one callback, and   *)
(* control returns to the loop when the callback returns or awaits.         *)
(***************************************************************************)
\* The requests sent in this specification.
StepRequests ==
    {[op |-> "createRequest", userInfo |-> ui, imageUrl |-> Null] :
        ui \in UserInfos}
    \cup {[op |-> "createContact", in |-> in] : in \in ContactInputs}
    \cup {[op |-> "updateRequestStatus", id |-> <<"1">>, status |-> st] :
             st \in RequestStatuses}
    \cup {[op |-> "deleteRequest", id |-> <<"1">>]}
    \cup {[op |-> "upsertAssignment", requestId |-> <<"1">>, in |-> in] :
             in \in AssignmentInputs}

\* The collection whose next id the handler of r asks for after reading d, or
\* "" when it does not call getNextId.
IdCollection(r, d) ==
    CASE r.op = "createRequest" -> "requests"
      [] r.op = "createContact" -> "contacts"
      [] r.op = "upsertAssignment" ->
            IF FindIndex(d.assignments,
                         LAMBDA a : StrictEq(a.requestId, ParseInt(r.requestId))) = 0
            THEN "assignments" ELSE ""
      [] OTHER -> ""

\* The body of the handler of r on the copy d, with id from getNextId, at t.
Body(r, d, id, t) ==
    CASE r.op = "createRequest" ->
            createRequest(d, id, r.userInfo, r.imageUrl, t, t)
      [] r.op = "createContact" -> createContact(d, id, r.in, t)
      [] r.op = "updateRequestStatus" ->
            updateRequestStatus(d, ParseInt(r.id), r.status, t)
      [] r.op = "deleteRequest" -> deleteRequest(d, ParseInt(r.id))
      [] r.op = "upsertAssignment" ->
            upsertAssignment(d, id, ParseInt(r.requestId), ParseInt(r.in.contactId),
                             ParseInt(r.in.userId), r.in.status, t, t)

\* The file operations done with await (fs.promises): the handler gives the
\* event loop control at each of them.
FileCallAwaited == TRUE

\* fs.readFileSync and fs.writeFileSync return their result to the caller: the
\* handler does not give control back to the event loop at a file operation.
FileCallYields == FALSE

\* The handler of connection c can take its next step: it is on the stack, or
\* it awaits and nothing is on the stack.
Runs(c) ==
    \/ stack = c
    \/ stack = 0 /\ hs[c].pc \in {"nextId", "write", "respond"}

AfterFileCall(c) == IF FileCallYields THEN 0 ELSE c

\* A request arrives on connection c.
Arrive(c, r) ==
    /\ up
    /\ hs[c].pc = "idle"
    /\ nops + Cardinality({k \in Clients : hs[k].pc # "idle"}) < MaxOps
    /\ hs' = [hs EXCEPT ![c] = [Idle EXCEPT !.pc = "queued", !.req = r]]
    /\ UNCHANGED <<db, up, now, last, nops, stack>>

\* The event loop, with nothing on the stack, calls the route's callback.
Enter(c) ==
    /\ hs[c].pc = "queued"
    /\ stack = 0
    /\ stack' = c
    /\ hs' = [hs EXCEPT ![c].pc = "read"]
    /\ UNCHANGED <<db, up, now, last, nops>>

\* const db = readDatabase()
ReadStep(c) ==
    LET d == readDatabase(db, TRUE)
    IN  /\ stack = c
        /\ hs[c].pc = "read"
        /\ hs' = [hs EXCEPT ![c].d = d,
                            ![c].pc = IF IdCollection(hs[c].req, d) # ""
                                      THEN "nextId" ELSE "write"]
        /\ stack' = AfterFileCall(c)
        /\ UNCHANGED <<db, up, now, last, nops>>

\* id: getNextId(...)
NextIdStep(c) ==
    /\ Runs(c)
    /\ hs[c].pc = "nextId"
    /\ hs' = [hs EXCEPT ![c].id =
                 getNextId(db, IdCollection(hs[c].req, hs[c].d), TRUE),
                        ![c].pc = "write"]
    /\ stack' = AfterFileCall(c)
    /\ UNCHANGED <<db, up, now, last, nops>>

\* the body up to writeDatabase(db), or up to the return of a 404
WriteStep(c) ==
    LET out == Body(hs[c].req, hs[c].d, hs[c].id, now)
    IN  /\ Runs(c)
        /\ hs[c].pc = "write"
        /\ db' = IF out.write THEN writeDatabase(db, out.data, TRUE) ELSE db
        /\ hs' = [hs EXCEPT ![c].pc = "respond", ![c].t = now]
        /\ stack' = AfterFileCall(c)
        /\ UNCHANGED <<up, now, last, nops>>

\* res.json(...) and the return of the callback
RespondStep(c) ==
    LET out == Body(hs[c].req, hs[c].d, hs[c].id, hs[c].t)
    IN  /\ Runs(c)
        /\ hs[c].pc = "respond"
        /\ last' = [op |-> hs[c].req.op, req |-> hs[c].req, code |-> out.code,
                    body |-> out.body, path |-> out.path, wrote |-> out.write,
                    pre |-> hs[c].d, at |-> hs[c].t, read |-> TRUE,
                    idRead |-> TRUE]
        /\ hs' = [hs EXCEPT ![c] = Idle]
        /\ stack' = 0
        /\ nops' = nops + 1
        /\ UNCHANGED <<db, up, now>>

NextSteps ==
    \/ Startup
    \/ Tick
    \/ \E c \in Clients, r \in StepRequests : Arrive(c, r)
    \/ \E c \in Clients : Enter(c)
    \/ \E c \in Clients : ReadStep(c)
    \/ \E c \in Clients : NextIdStep(c)
    \/ \E c \in Clients : WriteStep(c)
    \/ \E c \in Clients : RespondStep(c)

SpecSteps == Init /\ [][NextSteps]_vars

(***************************************************************************)
(* Two server processes over one database.json, each with an event loop of  *)
(* its own, each handling one create: the operating system runs the file    *)
(* operations of the two in any order.                                      *)
(***************************************************************************)
Procs == {1, 2}

\* The creates sent to the two processes.
RaceRequests ==
    {[op |-> "createRequest", userInfo |-> ui, imageUrl |-> img] :
        ui \in UserInfos, img \in ImageRefs}
    \cup {[op |-> "createContact", in |-> in] : in \in ContactInputs}

\* A create arrives at process p and its callback is called.
RaceArrive(p, r) ==
    /\ up
    /\ hs[p].pc = "idle"
    /\ hs' = [hs EXCEPT ![p] = [Idle EXCEPT !.pc = "read", !.req = r]]
    /\ UNCHANGED <<db, up, now, last, nops, stack>>

\* const db = readDatabase()
RaceRead(p) ==
    /\ hs[p].pc = "read"
    /\ hs' = [hs EXCEPT ![p].d = readDatabase(db, TRUE), ![p].pc = "nextId"]
    /\ UNCHANGED <<db, up, now, last, nops, stack>>

\* id: getNextId(...)
RaceNextId(p) ==
    /\ hs[p].pc = "nextId"
    /\ hs' = [hs EXCEPT ![p].id =
                 getNextId(db, IdCollection(hs[p].req, hs[p].d), TRUE),
                        ![p].pc = "write"]
    /\ UNCHANGED <<db, up, now, last, nops, stack>>

\* push and writeDatabase(db).  A process that has done its reads and not yet
\* its write is overtaken by this write.
RaceWrite(p) ==
    LET out == Body(hs[p].req, hs[p].d, hs[p].id, now)
    IN  /\ hs[p].pc = "write"
        /\ db' = writeDatabase(db, out.data, TRUE)
        /\ hs' = [q \in Clients |->
                     IF q = p THEN [hs[p] EXCEPT !.pc = "respond", !.t = now]
                     ELSE IF hs[q].pc = "write"
                          THEN [hs[q] EXCEPT !.overtaken = TRUE]
                          ELSE hs[q]]
        /\ UNCHANGED <<up, now, last, nops, stack>>

\* res.json({...newRequest, message})
RaceRespond(p) ==
    LET out == Body(hs[p].req, hs[p].d, hs[p].id, hs[p].t)
    IN  /\ hs[p].pc = "respond"
        /\ last' = [op |-> hs[p].req.op, req |-> hs[p].req, code |-> out.code,
                    body |-> out.body, path |-> out.path, wrote |-> out.write,
                    pre |-> hs[p].d, at |-> hs[p].t, read |-> TRUE,
                    idRead |-> TRUE]
        /\ hs' = [hs EXCEPT ![p].pc = "done"]
        /\ nops' = nops + 1
        /\ UNCHANGED <<db, up, now, stack>>

NextRace ==
    \/ Startup
    \/ Tick
    \/ \E p \in Procs, r \in RaceRequests : RaceArrive(p, r)
    \/ \E p \in Procs : RaceRead(p)
    \/ \E p \in Procs : RaceNextId(p)
    \/ \E p \in Procs : RaceWrite(p)
    \/ \E p \in Procs : RaceRespond(p)

SpecRace == Init /\ [][NextRace]_vars

(***************************************************************************)
(* clean-database.js: the script that rewrites the requests of a           *)
(* database.json, run on any requests array of up to MaxRequests records.   *)
(***************************************************************************)
\* A property that the parsed record does not have.
Undefined == [type |-> "undefined"]

PLACEHOLDER == "/uploads/placeholder.png"

\* What the operator + makes of v when the other operand is a string.
ToJsString(v) ==
    IF v = Null THEN "null"
    ELSE IF v = Undefined THEN "undefined"
    ELSE v.str

\* const key = req.userInfo + '|' + req.imageUrl
RequestKey(req) == req.userInfo \o "|" \o ToJsString(req.imageUrl)

\* The filter of cleanRequests: the records whose key is not in seen, each key
\* added to seen when first met.
RECURSIVE FilterUnseen(_, _)
FilterUnseen(requests, seen) ==
    IF requests = <<>> THEN <<>>
    ELSE IF RequestKey(requests[1]) \in seen
         THEN FilterUnseen(Tail(requests), seen)
         ELSE <<requests[1]>>
              \o FilterUnseen(Tail(requests), seen \cup {RequestKey(requests[1])})

\* cleanRequests with === in place of ==: a missing imageUrl is not replaced.
cleanRequestsStrictNull(requests) ==
    LET kept == FilterUnseen(requests, {})
    IN  [i \in 1..Len(kept) |->
            [kept[i] EXCEPT !.id = i,
                            !.imageUrl = IF @ = Null THEN Str(PLACEHOLDER) ELSE @]]

\* cleanRequests: the filter, then ids 1, 2, ... and the placeholder for an
\* imageUrl that == null (null or undefined).
cleanRequests(requests) ==
    LET kept == FilterUnseen(requests, {})
    IN  [i \in 1..Len(kept) |->
            [kept[i] EXCEPT !.id = i,
                            !.imageUrl = IF @ \in {Null, Undefined}
                                         THEN Str(PLACEHOLDER) ELSE @]]

\* The records of the arrays the script is run on.
CleanIds == {1, 2}
CleanUserInfos == {"Jane, Toyota, Rabat", "Omar, Dacia, Fes"}
CleanImageUrls ==
    {Null, Undefined, Str(PLACEHOLDER), Str("/uploads/photo-1.png")}

CleanRecords ==
    {[id |-> id, userInfo |-> ui, imageUrl |-> img, status |-> "Submitted",
      createdAt |-> 0, updatedAt |-> 0] :
        id \in CleanIds, ui \in CleanUserInfos, img \in CleanImageUrls}

CleanInputs == UNION {[1..n -> CleanRecords] : n \in 0..MaxRequests}

\* A database.json with any requests array in it; no server runs.
InitClean ==
    /\ db \in {[EmptyDb EXCEPT !.requests = rs] : rs \in CleanInputs}
    /\ up = FALSE
    /\ now = 0
    /\ last = NoRequest
    /\ nops = 0
    /\ hs = [c \in Clients |-> Idle]
    /\ stack = 0

\* main(): read and parse the file, clean its requests, write it.
CleanMain ==
    /\ nops < MaxCleanRuns
    /\ db # NoFile
    /\ db' = [db EXCEPT !.requests = cleanRequests(@)]
    /\ last' = [NoRequest EXCEPT !.op = "clean", !.pre = db]
    /\ nops' = nops + 1
    /\ UNCHANGED <<up, now, hs, stack>>

NextClean == CleanMain

SpecClean == InitClean /\ [][NextClean]_vars

\* The script run on the database.json of the server.  The files the server
\* can have written when it has handled one more request, at time t, on file
\* f: the requests are those on requests and assignments.
StoreStep(f, t) ==
    LET outs ==
            {createRequest(f, getNextId(f, "requests", TRUE), ui, img, t, t) :
                ui \in UserInfos, img \in ImageRefs}
            \cup {deleteRequest(f, ParseInt(id)) : id \in RequestIdArgs}
            \cup {upsertAssignment(f, getNextId(f, "assignments", TRUE),
                                   ParseInt(r), ParseInt(in.contactId),
                                   ParseInt(in.userId), in.status, t, t) :
                      r \in RequestIdArgs, in \in AssignmentInputs}
    IN  {writeDatabase(f, out.data, TRUE) : out \in {o \in outs : o.write}}

\* The files of a server started at time 0 that has handled up to n requests,
\* the k-th at time k.
RECURSIVE ProducedStores(_)
ProducedStores(n) ==
    IF n = 0 THEN {InitialData(0)}
    ELSE LET P == ProducedStores(n - 1)
         IN  P \cup UNION {StoreStep(f, n) : f \in P}

InitLinks ==
    /\ db \in ProducedStores(MaxStoreOps)
    /\ up = FALSE
    /\ now = 0
    /\ last = NoRequest
    /\ nops = 0
    /\ hs = [c \in Clients |-> Idle]
    /\ stack = 0

SpecLinks == InitLinks /\ [][NextClean]_vars

(***************************************************************************)
(* Properties.                                                             *)
(***************************************************************************)
\* The stored collections (none before the file exists).
Stored == IF db = NoFile THEN EmptyDb ELSE db

\* The file before the last request.
Before == IF last.pre = NoFile \/ last.pre = Null THEN EmptyDb ELSE last.pre

Succeeded(op) == last.op = op /\ last.code = 200

\* C1: for every value, at most one stored assignment has it as requestId.
AtMostOneAssignment ==
    \A i, j \in 1..Len(Stored.assignments) :
        Stored.assignments[i].requestId = Stored.assignments[j].requestId => i = j

\* C2: in each collection the stored ids are pairwise distinct.
IdsUnique ==
    \A c \in {"requests", "contacts", "users", "admins", "assignments"} :
        \A i, j \in 1..Len(Stored[c]) :
            Stored[c][i].id = Stored[c][j].id => i = j

\* A contact was deleted, then one was created: it has an id above every
\* stored one although the collection holds fewer records than that.
IdsUniqueWitness ==
    /\ Succeeded("createContact")
    /\ last.body.id > Len(Stored.contacts)
    /\ \E i \in 1..Len(Stored.contacts) : Stored.contacts[i].id = last.body.id

\* C3: after a successful deleteRequest(x), deleteContact(x) or deleteUser(x)
\* no stored assignment, and none that listAssignments returns, has x as its
\* requestId (contactId, userId).
CascadeComplete ==
    /\ Succeeded("deleteRequest") =>
          /\ \A i \in 1..Len(Stored.assignments) :
                Stored.assignments[i].requestId # last.req.id
          /\ \A i \in 1..Len(listAssignments(Stored)) :
                listAssignments(Stored)[i].requestId # last.req.id
    /\ Succeeded("deleteContact") =>
          /\ \A i \in 1..Len(Stored.assignments) :
                Stored.assignments[i].contactId # last.req.id
          /\ \A i \in 1..Len(listAssignments(Stored)) :
                listAssignments(Stored)[i].contactId # last.req.id
    /\ Succeeded("deleteUser") =>
          /\ \A i \in 1..Len(Stored.assignments) :
                Stored.assignments[i].userId # last.req.id
          /\ \A i \in 1..Len(listAssignments(Stored)) :
                listAssignments(Stored)[i].userId # last.req.id

\* A deletion that found an assignment naming the deleted record, beside one
\* that names another.
CascadeCompleteWitness ==
    /\ Succeeded("deleteContact")
    /\ \E i \in 1..Len(Before.assignments) :
          Before.assignments[i].contactId = last.req.id
    /\ Len(Stored.assignments) > 0

\* C4 as stated: after upsertAssignment(r, ...) with request r stored, request
\* r is "In Progress" and its updatedAt is strictly greater than before.
StatusSideEffectStrict ==
    last.op = "upsertAssignment" =>
        \A i \in 1..Len(Before.requests) :
            Num(Before.requests[i].id) = last.req.requestId =>
                /\ Stored.requests[i].status = "In Progress"
                /\ Stored.requests[i].updatedAt > Before.requests[i].updatedAt

\* C4 as amended: request r is "In Progress" and its updatedAt is the clock's
\* reading at the call, which is not below the value before.
StatusSideEffect ==
    last.op = "upsertAssignment" =>
        \A i \in 1..Len(Before.requests) :
            Num(Before.requests[i].id) = last.req.requestId =>
                /\ Stored.requests[i].status = "In Progress"
                /\ Stored.requests[i].updatedAt = last.at
                /\ Stored.requests[i].updatedAt >= Before.requests[i].updatedAt

\* An assignment said to be completed was stored for a request that was
\* "Completed", in the millisecond of the request's last update.
StatusSideEffectWitness ==
    /\ last.op = "upsertAssignment"
    /\ last.req.status = "completed"
    /\ \E i \in 1..Len(Before.requests) :
          /\ Num(Before.requests[i].id) = last.req.requestId
          /\ Before.requests[i].status = "Completed"
          /\ Before.requests[i].updatedAt = Stored.requests[i].updatedAt
          /\ Stored.requests[i].status = "In Progress"

\* C5: an upsertAssignment for a request id that already has an assignment
\* leaves exactly one assignment for it, at the same place, with the call's
\* contactId, userId and status and the id, requestId and createdAt it had.
ReassignIdempotent ==
    last.op = "upsertAssignment" /\ last.req.requestId # NaN =>
        \A i \in 1..Len(Before.assignments) :
            Before.assignments[i].requestId = last.req.requestId =>
                /\ {j \in 1..Len(Stored.assignments) :
                       Stored.assignments[j].requestId = last.req.requestId} = {i}
                /\ Stored.assignments[i] =
                      [id |-> Before.assignments[i].id,
                       requestId |-> Before.assignments[i].requestId,
                       createdAt |-> Before.assignments[i].createdAt,
                       contactId |-> JsonValue(last.req.contactId),
                       userId |-> JsonValue(last.req.userId),
                       status |-> last.req.status]

\* A second call for the same request, later than the first, with another
\* contact and another status.
ReassignIdempotentWitness ==
    /\ last.op = "upsertAssignment"
    /\ last.path = "updated"
    /\ \E i \in 1..Len(Before.assignments) :
          /\ Before.assignments[i].requestId = last.req.requestId
          /\ Before.assignments[i].contactId # last.req.contactId
          /\ Before.assignments[i].status # last.req.status
          /\ Before.assignments[i].createdAt < last.at
          /\ Stored.assignments[i].createdAt < last.at

\* The collection an update or a delete looks its id up in.
CollectionOf(op) ==
    CASE op \in {"updateRequestStatus", "deleteRequest"} -> "requests"
      [] op \in {"updateContact", "deleteContact"} -> "contacts"
      [] op \in {"updateUser", "deleteUser"} -> "users"
      [] op \in {"updateAdmin", "deleteAdmin"} -> "admins"

ByIdOps ==
    {"updateRequestStatus", "deleteRequest", "updateContact", "deleteContact",
     "updateUser", "deleteUser", "updateAdmin", "deleteAdmin"}

\* C6: an update or a delete whose id is in no record of its collection is
\* answered 404 and leaves the file as it was; every 404 leaves it as it was.
NotFoundUnchanged ==
    /\ last.code = 404 => db = last.pre
    /\ last.op \in ByIdOps =>
          ((\A i \in 1..Len(Before[CollectionOf(last.op)]) :
               Num(Before[CollectionOf(last.op)][i].id) # last.req.id)
           => last.code = 404 /\ db = last.pre)

\* deleteContact of an id no contact has, while an assignment names that id.
NotFoundUnchangedWitness ==
    /\ last.op = "deleteContact"
    /\ last.code = 404
    /\ \E i \in 1..Len(Stored.assignments) :
          Stored.assignments[i].contactId = last.req.id

\* C7: when upsertAssignment creates an assignment, the request, the contact
\* and the user it names are stored.
ExistAtCreation ==
    last.op = "upsertAssignment" /\ last.path = "created" =>
        /\ \E i \in 1..Len(Before.requests) :
              Num(Before.requests[i].id) = last.req.requestId
        /\ \E i \in 1..Len(Before.contacts) :
              Num(Before.contacts[i].id) = last.req.contactId
        /\ \E i \in 1..Len(Before.users) :
              Num(Before.users[i].id) = last.req.userId

\* C8: no two stored users have the same username, nor the same email.
UsersUnique ==
    \A i, j \in 1..Len(Stored.users) :
        i # j => /\ Stored.users[i].username # Stored.users[j].username
                 /\ Stored.users[i].email # Stored.users[j].email

InWindow(c) == hs[c].pc \in {"nextId", "write"}

\* C10: while a handler is between its readDatabase and its writeDatabase no
\* other handler has started, the file is still what the handler read and the
\* id it was given is still the next one; and when a handler has answered, the
\* file is what that handler alone makes of the file it read.
SerializedHandlers ==
    /\ \A c \in Clients :
          InWindow(c) =>
             /\ \A k \in Clients \ {c} : hs[k].pc \in {"idle", "queued"}
             /\ hs[c].d = readDatabase(db, TRUE)
             /\ hs[c].pc = "write" /\ IdCollection(hs[c].req, hs[c].d) # "" =>
                   hs[c].id = getNextId(db, IdCollection(hs[c].req, hs[c].d), TRUE)
    /\ last.op \in {r.op : r \in StepRequests}
          /\ (\A c \in Clients : hs[c].pc # "respond") =>
             LET out == Body(last.req, last.pre,
                             IF IdCollection(last.req, last.pre) # ""
                             THEN getNextId(last.pre,
                                            IdCollection(last.req, last.pre), TRUE)
                             ELSE 0,
                             last.at)
             IN  db = IF out.write THEN Serialize(out.data) ELSE last.pre

\* One createRequest is about to write while another createRequest waits.
SerializedHandlersWitness ==
    \E c, k \in Clients :
        /\ c # k
        /\ hs[c].pc = "write" /\ hs[c].req.op = "createRequest"
        /\ hs[k].pc = "queued" /\ hs[k].req.op = "createRequest"
        /\ Len(Stored.requests) > 0

\* The assignments of s whose field f is not x, in their order.
Others(s, f, x) == SelectSeq(s, LAMBDA a : a[f] # x)

AdminOps == {"createAdmin", "updateAdmin", "deleteAdmin"}

\* C11: a successful deleteRequest(r) leaves the assignments of other requests
\* and the contacts, users and admins as they were; a successful
\* deleteContact(c) or deleteUser(u) leaves the requests and the assignments
\* that do not name c (u) as they were; an admin operation leaves requests,
\* contacts, users and assignments as they were; updateRequestStatus leaves
\* the assignments as they were.
FrameOfMutations ==
    /\ Succeeded("deleteRequest") =>
          /\ Others(Stored.assignments, "requestId", last.req.id)
                = Others(Before.assignments, "requestId", last.req.id)
          /\ Stored.contacts = Before.contacts
          /\ Stored.users = Before.users
          /\ Stored.admins = Before.admins
    /\ Succeeded("deleteContact") =>
          /\ Others(Stored.assignments, "contactId", last.req.id)
                = Others(Before.assignments, "contactId", last.req.id)
          /\ Stored.requests = Before.requests
    /\ Succeeded("deleteUser") =>
          /\ Others(Stored.assignments, "userId", last.req.id)
                = Others(Before.assignments, "userId", last.req.id)
          /\ Stored.requests = Before.requests
    /\ last.op \in AdminOps =>
          /\ Stored.requests = Before.requests
          /\ Stored.contacts = Before.contacts
          /\ Stored.users = Before.users
          /\ Stored.assignments = Before.assignments
    /\ last.op = "updateRequestStatus" =>
          Stored.assignments = Before.assignments

\* A request was deleted while an assignment of another request was stored.
FrameOfMutationsWitness ==
    /\ Succeeded("deleteRequest")
    /\ \E i \in 1..Len(Before.assignments) :
          Before.assignments[i].requestId # last.req.id
    /\ Len(Stored.assignments) > 0

\* The collection a create appends to.
CreatedIn(op) ==
    CASE op = "createRequest" -> "requests"
      [] op = "createContact" -> "contacts"
      [] op = "createUser" -> "users"
      [] op = "createAdmin" -> "admins"
      [] op = "upsertAssignment" -> "assignments"

CreateOps ==
    {"createRequest", "createContact", "createUser", "createAdmin",
     "upsertAssignment"}

\* id is one above the greatest id of s, or 1 when s is empty.
IsNextId(id, s) ==
    IF s = <<>> THEN id = 1
    ELSE /\ \E i \in 1..Len(s) : s[i].id = id - 1
         /\ \A i \in 1..Len(s) : s[i].id < id

\* The collection c was, before the last request, as initializeDatabase
\* writes it.
AsSeeded(c) == \E t \in 0..MaxTime : Before[c] = InitialData(t)[c]

\* C12: every create appends one record whose id is one above the greatest id
\* the collection held, or 1 when it held none, and answers with that id (the
\* create of an assignment answers with no record); on the collections as
\* seeded the first contact gets id 4, the first request id 1 and the first
\* assignment id 1.
IdAllocation ==
    (last.op \in CreateOps /\ last.path = "created") =>
        LET c == CreatedIn(last.op)
            new == Stored[c][Len(Stored[c])]
        IN  /\ Len(Stored[c]) = Len(Before[c]) + 1
            /\ SubSeq(Stored[c], 1, Len(Before[c])) = Before[c]
            /\ IsNextId(new.id, Before[c])
            /\ last.op # "upsertAssignment" => last.body.id = new.id
            /\ AsSeeded(c) => new.id = (IF c = "contacts" THEN 4
                                        ELSE IF c \in {"requests", "assignments"}
                                        THEN 1 ELSE new.id)

\* The first contact created on the seeded contacts, after a first request.
IdAllocationWitness ==
    /\ Succeeded("createContact")
    /\ AsSeeded("contacts")
    /\ last.body.id = 4
    /\ Len(Stored.requests) = 1
    /\ Stored.requests[1].id = 1

\* C13: the request createRequest answers with, which is the record it
\* appends, has status "Submitted", the imageUrl given or null when none was
\* given, and createdAt equal to updatedAt.
CreateRequestResult ==
    Succeeded("createRequest") =>
        /\ last.body.status = "Submitted"
        /\ last.body.imageUrl = last.req.imageUrl
        /\ last.body.createdAt = last.body.updatedAt
        /\ last.wrote => Stored.requests[Len(Stored.requests)] = last.body

ListOps == {"listRequests", "listAssignments"}

\* The request was answered as on five empty collections and not with an
\* error: a list with the empty sequence, an update or a delete with 404, both
\* leaving the file alone; a create whose write succeeded left a file that
\* holds the created record and nothing else.
FallbackTaken ==
    /\ last.code \in {200, 404}
    /\ last.op \in ListOps => last.code = 200 /\ last.body = <<>> /\ db = last.pre
    /\ last.op \in ByIdOps => last.code = 404 /\ db = last.pre
    /\ last.wrote =>
          /\ last.op \in CreateOps
          /\ \A c \in DOMAIN EmptyDb :
                Len(Stored[c]) = IF c = CreatedIn(last.op) THEN 1 ELSE 0
          /\ last.op # "upsertAssignment" =>
                Stored[CreatedIn(last.op)][1] = last.body
          /\ last.op = "upsertAssignment" =>
                /\ Stored.assignments[1].requestId = JsonValue(last.req.requestId)
                /\ Stored.assignments[1].contactId = JsonValue(last.req.contactId)
                /\ Stored.assignments[1].userId = JsonValue(last.req.userId)

CleanResult ==
    last.op = "clean" =>
        LET out == Stored.requests
        IN  /\ \A i, j \in 1..Len(out) : out[i].id = out[j].id => i = j
            /\ \A i \in 1..Len(out) : out[i].imageUrl \notin {Null, Undefined}
            /\ \A i \in 1..Len(Before.requests) :
                  Before.requests[i].imageUrl \in {Null, Undefined} =>
                      \E k \in 1..Len(out) :
                          /\ out[k].userInfo = Before.requests[i].userInfo
                          /\ out[k].imageUrl = Str(PLACEHOLDER)

\* The script ran on an array with two records of one id, one with imageUrl
\* null and one without imageUrl, and kept both.
CleanResultWitness ==
    /\ last.op = "clean"
    /\ \E i, j \in 1..Len(Before.requests) :
          /\ i # j
          /\ Before.requests[i].id = Before.requests[j].id
          /\ Before.requests[i].imageUrl = Null
          /\ Before.requests[j].imageUrl = Undefined
    /\ Len(Stored.requests) = Len(Before.requests)
    /\ Len(Stored.requests) > 1

\* The requests of s that no earlier request of s equals in id and userInfo.
KeptByRule(s) ==
    LET idx == SelectSeq([i \in 1..Len(s) |-> i],
                         LAMBDA i : ~\E j \in 1..(i - 1) :
                                       /\ s[j].id = s[i].id
                                       /\ s[j].userInfo = s[i].userInfo)
    IN  [k \in 1..Len(idx) |-> s[idx[k]]]

\* C16: cleanRequests removes a request exactly when an earlier request of
\* the array has the same id and the same userInfo: what it returns is the
\* other requests in their order, with their userInfo and their imageUrl
\* (the placeholder for null or missing).
CleanDuplicateRule ==
    last.op = "clean" =>
        LET out == Stored.requests
            kept == KeptByRule(Before.requests)
        IN  /\ Len(out) = Len(kept)
            /\ \A k \in 1..Len(out) :
                  /\ out[k].userInfo = kept[k].userInfo
                  /\ out[k].imageUrl = IF kept[k].imageUrl \in {Null, Undefined}
                                       THEN Str(PLACEHOLDER) ELSE kept[k].imageUrl

\* v is the text of field f of the one record of s whose id is the number
\* ref, or null when s has no such record.
Resolves(v, s, ref, f) ==
    IF \E i \in 1..Len(s) : Num(s[i].id) = ref
    THEN \E i \in 1..Len(s) : Num(s[i].id) = ref /\ v = Str(s[i][f])
    ELSE v = Null

\* C17: listRequests and listAssignments are answered 200 whatever the
\* references, and leave the file as it was.  listRequests has one entry for
\* each stored request, with the name and role of the contact and the name of
\* the user of the assignment for that request, each null when there is no
\* such assignment or no such contact (user).  listAssignments has one entry
\* for each stored assignment, with the fields of its request, its contact
\* and its user, each null when that record is not stored, whatever the other
\* two.
ListEnrichment ==
    /\ last.op \in ListOps => last.code = 200 /\ db = last.pre
    /\ last.op = "listRequests" =>
          /\ Len(last.body) = Len(Before.requests)
          /\ \A i \in 1..Len(Before.requests) :
                \E k \in 1..Len(last.body) :
                    LET r == Before.requests[i]
                        v == last.body[k]
                        as == Others(Before.assignments, "requestId", Null)
                        mine == SelectSeq(as, LAMBDA a : a.requestId = Num(r.id))
                    IN  /\ v.id = r.id
                        /\ v.userInfo = r.userInfo
                        /\ v.status = r.status
                        /\ IF mine = <<>>
                           THEN /\ v.contactName = Null
                                /\ v.contactRole = Null
                                /\ v.userName = Null
                           ELSE /\ Resolves(v.contactName, Before.contacts,
                                            mine[1].contactId, "name")
                                /\ Resolves(v.contactRole, Before.contacts,
                                            mine[1].contactId, "role")
                                /\ Resolves(v.userName, Before.users,
                                            mine[1].userId, "username")
    /\ last.op = "listAssignments" =>
          /\ Len(last.body) = Len(Before.assignments)
          /\ \A i \in 1..Len(Before.assignments) :
                \E k \in 1..Len(last.body) :
                    LET a == Before.assignments[i]
                        v == last.body[k]
                    IN  /\ v.id = a.id
                        /\ v.requestId = a.requestId
                        /\ v.contactId = a.contactId
                        /\ v.userId = a.userId
                        /\ Resolves(v.userInfo, Before.requests, a.requestId,
                                    "userInfo")
                        /\ Resolves(v.requestStatus, Before.requests,
                                    a.requestId, "status")
                        /\ Resolves(v.contactName, Before.contacts, a.contactId,
                                    "name")
                        /\ Resolves(v.contactRole, Before.contacts, a.contactId,
                                    "role")
                        /\ Resolves(v.userName, Before.users, a.userId,
                                    "username")

\* The assignments were listed while one of them named a request that is not
\* stored and a contact that is.
ListEnrichmentWitness ==
    /\ last.op = "listAssignments"
    /\ \E k \in 1..Len(last.body) :
          /\ last.body[k].userInfo = Null
          /\ last.body[k].requestStatus = Null
          /\ last.body[k].contactName # Null
          /\ last.body[k].userName # Null

\* What process p answered its create with.
Answered(p) == Body(hs[p].req, hs[p].d, hs[p].id, hs[p].t)

\* Processes p and q have both answered a create on one collection, and q had
\* done its reads before p wrote and wrote after p: both read before either
\* wrote.
Raced(p, q) ==
    /\ p # q
    /\ hs[p].pc = "done"
    /\ hs[q].pc = "done"
    /\ hs[q].overtaken
    /\ hs[p].req.op = hs[q].req.op

\* C18: when two processes have each answered a create on one collection and
\* both had read the file before either wrote it, both answered 200 with the
\* same id, and the stored collection holds one record more than either read:
\* the record of the process that wrote last, and one record only with
\* that id.
UnserializedAllocation ==
    \A p, q \in Procs :
        Raced(p, q) =>
            LET c == CreatedIn(hs[p].req.op)
            IN  /\ Answered(p).code = 200
                /\ Answered(q).code = 200
                /\ Answered(p).body.id = Answered(q).body.id
                /\ hs[p].d = hs[q].d
                /\ Stored[c] = Append(hs[q].d[c], Answered(q).body)
                /\ Len(Stored[c]) = Len(hs[p].d[c]) + 1
                /\ Cardinality({i \in 1..Len(Stored[c]) :
                                   Stored[c][i].id = Answered(p).body.id}) = 1

\* Two processes answered two different creates of a request with one id; the
\* file holds the second one's request and not the first one's.
UnserializedAllocationWitness ==
    \E p, q \in Procs :
        /\ Raced(p, q)
        /\ hs[p].req.op = "createRequest"
        /\ Answered(p).body # Answered(q).body
        /\ Answered(p).body.id = Answered(q).body.id
        /\ \A i \in 1..Len(Stored.requests) :
              Stored.requests[i] # Answered(p).body
        /\ \E i \in 1..Len(Stored.requests) :
              Stored.requests[i] = Answered(q).body

\* A record of s has the number ref as its id.
Exists(s, ref) == \E i \in 1..Len(s) : Num(s[i].id) = ref

\* Every assignment of d names a request, a contact and a user of d.
RefsExist(d) ==
    \A i \in 1..Len(d.assignments) :
        /\ Exists(d.requests, d.assignments[i].requestId)
        /\ Exists(d.contacts, d.assignments[i].contactId)
        /\ Exists(d.users, d.assignments[i].userId)

\* The step is an upsertAssignment that names a request, a contact or a user
\* that is not stored when it is called.
UpsertOfMissing ==
    /\ nops' = nops + 1
    /\ last'.op = "upsertAssignment"
    /\ ~(/\ Exists(Stored.requests, last'.req.requestId)
         /\ Exists(Stored.contacts, last'.req.contactId)
         /\ Exists(Stored.users, last'.req.userId))

\* C19: no step other than an upsertAssignment that names a record not stored
\* at its call takes a file in which every assignment names a stored request,
\* contact and user to one in which some assignment does not; the first file
\* has no assignments, so as long as every upsertAssignment names stored
\* records every stored assignment does.
ConditionalIntegrity ==
    [][(RefsExist(Stored) /\ ~UpsertOfMissing) => RefsExist(Stored')]_vars

\* An assignment was made for a stored request, contact and user, and it is
\* stored with the three.
ConditionalIntegrityWitness ==
    /\ last.op = "upsertAssignment"
    /\ Exists(Before.requests, last.req.requestId)
    /\ Exists(Before.contacts, last.req.contactId)
    /\ Exists(Before.users, last.req.userId)
    /\ Len(Stored.assignments) > 0
    /\ RefsExist(Stored)

\* C20: right after createRequest no stored assignment has the id of the new
\* request as its requestId, and listRequests shows the new request with
\* status "Submitted" and with contactName, contactRole and userName null.
FreshRequestUnassigned ==
    Succeeded("createRequest") =>
        /\ \A i \in 1..Len(Stored.assignments) :
              Stored.assignments[i].requestId # Num(last.body.id)
        /\ \A k \in 1..Len(listRequests(Stored)) :
              listRequests(Stored)[k].id = last.body.id =>
                  /\ listRequests(Stored)[k].status = "Submitted"
                  /\ listRequests(Stored)[k].contactName = Null
                  /\ listRequests(Stored)[k].contactRole = Null
                  /\ listRequests(Stored)[k].userName = Null

\* C21: cleanRequests applied to what cleanRequests returned returns the
\* same array, for every requests array: a second run of the script leaves
\* the file as the first run left it.
CleanIdempotent ==
    last.op = "clean" =>
        /\ cleanRequests(Stored.requests) = Stored.requests
        /\ nops > 1 => db = last.pre

\* Request r of the file before the run is in the file after it: a request
\* there has its userInfo and its createdAt.
Kept(r) ==
    \E k \in 1..Len(Stored.requests) :
        /\ Stored.requests[k].userInfo = r.userInfo
        /\ Stored.requests[k].createdAt = r.createdAt

\* Assignment a names, in the requests s, a request with the userInfo and the
\* createdAt of r.
NamesSame(a, s, r) ==
    \E k \in 1..Len(s) :
        /\ Num(s[k].id) = a.requestId
        /\ s[k].userInfo = r.userInfo
        /\ s[k].createdAt = r.createdAt

\* C22: after the script ran on a file of the server, an assignment that
\* named a request which the script kept names a request with the same
\* userInfo and createdAt, and an assignment that names a request named one
\* with the same userInfo and createdAt before the run.
CleanKeepsLinks ==
    last.op = "clean" =>
        /\ Stored.assignments = Before.assignments
        /\ \A i \in 1..Len(Before.assignments) :
              \A j \in 1..Len(Before.requests) :
                  (/\ Num(Before.requests[j].id) = Before.assignments[i].requestId
                   /\ Kept(Before.requests[j]))
                  => NamesSame(Stored.assignments[i], Stored.requests,
                               Before.requests[j])
        /\ \A i \in 1..Len(Stored.assignments) :
              \A k \in 1..Len(Stored.requests) :
                  Num(Stored.requests[k].id) = Stored.assignments[i].requestId
                  => NamesSame(Before.assignments[i], Before.requests,
                               Stored.requests[k])

====
